---- MODULE Spec2Model ----
(***************************************************************************)
(* A model of the capability-tagged connection pool of db/src/lib.rs and   *)
(* of the functions of web/src/main.rs that use it.                        *)
(*                                                                         *)
(* The pool engine (deadpool) and the driver (diesel-async on PostgreSQL)  *)
(* are modelled at the calls lib.rs makes into them: a pool is a FIFO      *)
(* queue of idle physical connections bounded by max_size, a physical      *)
(* connection carries the stack of its open transactions (BEGIN at depth   *)
(* 0, SAVEPOINT below it), and a statement sees the committed rows plus    *)
(* the uncommitted rows of its own connection.                             *)
(***************************************************************************)
EXTENDS Integers, Sequences, FiniteSets

\* ---------------------------------------------------------------- bounds
\* rows ever inserted into the table requests
MaxRows == 2
\* transaction callbacks open at once, nested or in different tasks
MaxDepth == 2
\* thread::available_parallelism() of the host
AvailableParallelism == 1
\* largest max_size a builder is given explicitly
MaxSizeArg == 1
\* times the pools are opened against the same database_url
MaxOpens == 2

\* concurrent callers (request handlers, tests)
Tasks == {"t1", "t2"}

\* ------------------------------------------------------------- data model
\* Option<bool> and Option<usize> of the builder arguments
NoneBool == [some |-> FALSE, v |-> FALSE]
SomeBool(b) == [some |-> TRUE, v |-> b]
NoneUsize == [some |-> FALSE, v |-> 0]
SomeUsize(n) == [some |-> TRUE, v |-> n]
unwrap_or(opt, default) == IF opt.some THEN opt.v ELSE default

\* the two fields of AppState, and the marker type of each
PoolNames == {"rw_pool", "ro_pool"}
PoolMarker(p) == IF p = "rw_pool" THEN "ReadWrite" ELSE "ReadOnly"

\* the marker types
ReadOnly == "ReadOnly"
ReadWrite == "ReadWrite"

\* the handle forms: Object<AsyncPgConnection>, &mut AsyncPgConnection inside
\* a PooledConnection, and the bare AsyncPgConnection reached through Deref
Owned == "Object"
Borrowed == "RefMut"
Bare == "AsyncPgConnection"
NoMarker == "none"

VARIABLES
    pools,      \* PoolNames -> the pool built under that name
    conns,      \* PoolNames -> the physical connections the pool has created
    committed,  \* ids of the committed rows of the table requests
    writer,     \* writer[id]: the physical connection that inserted row id
    tasks,      \* Tasks -> the owned checkout and the open callbacks of a task
    rolledBack, \* rows written by callbacks that returned an error
    last        \* the last call made by a task and what it returned

vars == <<pools, conns, committed, writer, tasks, rolledBack, last>>

\* ------------------------------------------------- capability trait wiring
\* impl ReadableConnection for PooledConnection<ReadOnly, _>
ReadableImpls == {<<ReadOnly, Owned>>, <<ReadOnly, Borrowed>>}

\* a WriteableConnection impl on the borrowed read-only form as well
WriteableImplsLeaky ==
    {<<ReadWrite, Owned>>, <<ReadWrite, Borrowed>>, <<ReadOnly, Borrowed>>}

\* impl WriteableConnection for PooledConnection<ReadWrite, _>
WriteableImpls == {<<ReadWrite, Owned>>, <<ReadWrite, Borrowed>>}

ImplsWriteable(rw, form) == <<rw, form>> \in WriteableImpls

\* the explicit impls and the blanket impl for every WriteableConnection
ImplsReadable(rw, form) ==
    \/ <<rw, form>> \in ReadableImpls
    \/ ImplsWriteable(rw, form)

\* --------------------------------------------------------------- the pool
\* max_size.unwrap_or(2 * thread::available_parallelism().unwrap().get())
ResolveMaxSize(max_size) == unwrap_or(max_size, 2 * AvailableParallelism)

\* if test_mode.unwrap_or(false)
TestModeOn(test_mode) == unwrap_or(test_mode, FALSE)

\* a physical connection as the manager of the inst-th pool opened under a
\* name creates it
FreshConn(inst) ==
    [st |-> "out", frames |-> <<>>, test_transaction |-> FALSE,
     begun |-> 0, reused |-> FALSE, performed |-> {}, inst |-> inst]

\* a physical connection the pool has closed: the server rolls back
\* whatever it had open
ClosedConn(conn) ==
    [conn EXCEPT !.st = "closed", !.frames = <<>>, !.reused = FALSE,
                 !.performed = {}]

\* the flag set and the count kept, but no BEGIN sent
begin_test_flag_only(conn) ==
    [conn EXCEPT !.test_transaction = TRUE, !.begun = @ + 1]

\* conn.begin_test_transaction(): BEGIN, and the flag that keeps the pool
\* from discarding the connection for its open transaction
begin_test_transaction(conn) ==
    [conn EXCEPT !.frames = Append(@, {}),
                 !.test_transaction = TRUE,
                 !.begun = @ + 1]

\* the post_create hook, run on a physical connection the pool just created
post_create(test_mode, conn) ==
    IF TestModeOn(test_mode) THEN begin_test_transaction(conn) ELSE conn

\* the hook installed so that it runs on every checkout
recycle_hooked(test_mode, conn) ==
    post_create(test_mode, [conn EXCEPT !.st = "out", !.reused = TRUE])

\* the test transaction rolled back and begun again on every checkout
recycle_reset(test_mode, conn) ==
    [conn EXCEPT !.st = "out", !.reused = TRUE,
                 !.frames = IF TestModeOn(test_mode) THEN <<{}>> ELSE @]

\* a connection taken from the idle queue is handed out as it is: the
\* post_create hook is not run again
recycle(test_mode, conn) == [conn EXCEPT !.st = "out", !.reused = TRUE]

\* the pool discards an idle connection that has an open transaction not
\* begun by begin_test_transaction
is_broken(conn) == Len(conn.frames) > 0 /\ ~conn.test_transaction

\* the connections of pool p that hold one of its max_size slots
Live(p) == {i \in DOMAIN conns[p] : conns[p][i].st # "closed"}

\* the leading broken connections of the idle queue of pool p
RECURSIVE BrokenPrefix(_, _)
BrokenPrefix(p, queue) ==
    IF queue = <<>> \/ ~is_broken(conns[p][Head(queue)])
    THEN {}
    ELSE {Head(queue)} \cup BrokenPrefix(p, Tail(queue))

RECURSIVE DropBroken(_, _)
DropBroken(p, queue) ==
    IF queue = <<>> \/ ~is_broken(conns[p][Head(queue)])
    THEN queue
    ELSE DropBroken(p, Tail(queue))

\* PooledConnection { conn, rw: PhantomData } built by Pool<T>::get
OwnedHandle(p, i) == [pool |-> p, idx |-> i, rw |-> PoolMarker(p)]
NoHandle == [pool |-> "none", idx |-> 0, rw |-> NoMarker]

\* every physical connection created so far
AllConns == UNION {{<<p, i>> : i \in DOMAIN conns[p]} : p \in PoolNames}

\* ------------------------------------------------------------ the driver
\* a read that sees the committed rows only
VisibleCommitted(conn) == committed

\* rows a statement on a physical connection sees
VisibleTo(conn) ==
    committed \cup UNION {conn.frames[i] : i \in DOMAIN conn.frames}

Visible(c) == VisibleTo(conns[c[1]][c[2]])

\* BEGIN, or SAVEPOINT inside an open transaction
begin_transaction(frames) == Append(frames, {})

\* a commit that drops the rows of a released savepoint
commit_discards(frames) == SubSeq(frames, 1, Len(frames) - 1)

\* COMMIT at depth 1 ends the transaction; RELEASE SAVEPOINT hands the rows
\* of the savepoint to the enclosing transaction
commit_transaction(frames) ==
    LET n == Len(frames) IN
    IF n = 1 THEN <<>>
    ELSE [i \in 1..(n - 1) |-> IF i = n - 1 THEN frames[i] \cup frames[n]
                                            ELSE frames[i]]

\* the rows COMMIT makes visible to every connection
commit_rows(frames) == IF Len(frames) = 1 THEN frames[1] ELSE {}

\* a rollback that releases the savepoint instead
rollback_releases(frames) ==
    LET n == Len(frames) IN
    IF n = 1 THEN <<>>
    ELSE [i \in 1..(n - 1) |-> IF i = n - 1 THEN frames[i] \cup frames[n]
                                            ELSE frames[i]]

\* ROLLBACK, or ROLLBACK TO SAVEPOINT: the rows of the innermost level go
rollback_transaction(frames) == SubSeq(frames, 1, Len(frames) - 1)

\* an insert statement on a connection: into the innermost open transaction
execute_frames(frames, id) ==
    IF frames = <<>> THEN frames
    ELSE [frames EXCEPT ![Len(frames)] = @ \cup {id}]

\* an insert statement outside every transaction is committed at once
execute_rows(frames, id) == IF frames = <<>> THEN {id} ELSE {}

\* what the transaction manager issues once the callback is over
EndStatement(outcome) ==
    CASE outcome = "Ok" -> "COMMIT"
      [] outcome = "Err" -> "ROLLBACK"
      [] OTHER -> "none"

\* ------------------------------------------------------- transaction scope
\* the borrowed connection tagged with a marker of its own
BorrowedMarkerWidened(rw) == ReadWrite

\* PooledConnection::<T, &mut AsyncPgConnection> { conn, rw: PhantomData }
BorrowedMarker(rw) == rw

\* the connection a callback receives from h.transaction(callback): the
\* inherent method exists on the owned form only; on every other form the
\* call resolves through Deref to AsyncPgConnection's own transaction
CallbackHandle(h) ==
    IF h.form = Owned
    THEN [form |-> Borrowed, rw |-> BorrowedMarker(h.rw)]
    ELSE [form |-> Bare, rw |-> NoMarker]

\* callbacks open in all tasks together
RECURSIVE StackSum(_)
StackSum(S) ==
    IF S = {} THEN 0
    ELSE LET t == CHOOSE x \in S : TRUE
         IN Len(tasks[t].stack) + StackSum(S \ {t})

OpenCallbacks == StackSum(Tasks)

\* the handle a task's code has in scope
Innermost(t) ==
    LET s == tasks[t].stack IN
    IF s = <<>> THEN [form |-> Owned, rw |-> tasks[t].held.rw]
    ELSE [form |-> s[Len(s)].form, rw |-> s[Len(s)].rw]

\* the physical connection behind the checkout of task t
Held(t) == conns[tasks[t].held.pool][tasks[t].held.idx]

NoConn == <<"none", 0>>

NoLast ==
    [op |-> "none", conn |-> NoConn,
     failure |-> "none", res |-> "none", cb |-> "none", issued |-> "none",
     rows |-> {}, missed |-> {}, restored |-> TRUE,
     form |-> NoMarker, rw |-> NoMarker]

Init ==
    /\ pools = [p \in PoolNames |->
                  [status |-> "unbuilt", test_mode |-> NoneBool,
                   max_size |-> 0, idle |-> <<>>, opened |-> <<>>]]
    /\ conns = [p \in PoolNames |-> <<>>]
    /\ committed = {}
    /\ writer = <<>>
    /\ tasks = [t \in Tasks |-> [status |-> "run", held |-> NoHandle, stack |-> <<>>]]
    /\ rolledBack = {}
    /\ last = NoLast

\* ----------------------------------------------------------------- actions
\* Pool::new through rw_builder / ro_builder
Built(test_mode, max_size, opened) ==
    [status |-> "built", test_mode |-> test_mode,
     max_size |-> ResolveMaxSize(max_size), idle |-> <<>>,
     opened |-> Append(opened, test_mode)]

\* no pool is open, and pools may be opened once more
Unopened ==
    \A p \in PoolNames :
        /\ pools[p].status \in {"unbuilt", "dropped"}
        /\ Len(pools[p].opened) < MaxOpens

\* AppState { rw_pool: Pool::rw_builder()...build()?, ro_pool: ... }: both
\* pools are built with the same options
new(test_mode, max_size) ==
    /\ Unopened
    /\ pools' = [p \in PoolNames |->
                   Built(test_mode, max_size, pools[p].opened)]
    /\ last' = [NoLast EXCEPT !.op = "build", !.res = "Ok"]
    /\ UNCHANGED <<conns, committed, writer, tasks, rolledBack>>

\* the AppState of main, built once when the process starts
startup(test_mode, max_size) ==
    /\ \A p \in PoolNames : pools[p].opened = <<>>
    /\ new(test_mode, max_size)

\* the engine's build() fails: .build()? returns the BuildError
newFails ==
    /\ \A p \in PoolNames : pools[p].status = "unbuilt"
    /\ last' = [NoLast EXCEPT !.op = "build", !.failure = "build",
                              !.res = "Err"]
    /\ UNCHANGED <<pools, conns, committed, writer, tasks, rolledBack>>

\* the AppState goes out of scope when every task is done with it: the
\* pools are dropped and their connections closed
DropPool ==
    /\ \A p \in PoolNames : pools[p].status = "built"
    /\ \A t \in Tasks : tasks[t].held = NoHandle
    /\ pools' = [p \in PoolNames |->
                   [pools[p] EXCEPT !.status = "dropped", !.idle = <<>>]]
    /\ conns' = [p \in PoolNames |->
                   [i \in DOMAIN conns[p] |-> ClosedConn(conns[p][i])]]
    /\ last' = [NoLast EXCEPT !.op = "drop"]
    /\ UNCHANGED <<committed, writer, tasks, rolledBack>>

\* the idle queue of pool p once the engine has discarded the broken
\* connections at its head, and the connections of p after that
Usable(p) == DropBroken(p, pools[p].idle)

Kept(p) ==
    [i \in DOMAIN conns[p] |->
       IF i \in BrokenPrefix(p, pools[p].idle) THEN ClosedConn(conns[p][i])
       ELSE conns[p][i]]

\* the pool may create one more physical connection
Room(p) ==
    Cardinality(Live(p) \ BrokenPrefix(p, pools[p].idle)) < pools[p].max_size

\* Pool::get by task t: self.pool.get().await? succeeds, with an idle
\* connection or with one the pool creates and runs post_create on
get(t, p) ==
    LET queue == Usable(p)
        id == Len(conns[p]) + 1
        said == [NoLast EXCEPT !.op = "get", !.res = "Ok"]
    IN
    /\ tasks[t].status = "run"
    /\ tasks[t].held = NoHandle
    /\ pools[p].status = "built"
    /\ \/ /\ queue # <<>>
          /\ conns' = [conns EXCEPT ![p] =
                         [Kept(p) EXCEPT ![Head(queue)] =
                            recycle(pools[p].test_mode, @)]]
          /\ pools' = [pools EXCEPT ![p].idle = Tail(queue)]
          /\ tasks' = [tasks EXCEPT ![t].held = OwnedHandle(p, Head(queue))]
          /\ last' = [said EXCEPT !.conn = <<p, Head(queue)>>]
       \/ /\ queue = <<>>
          /\ Room(p)
          /\ conns' = [conns EXCEPT ![p] =
                         Append(Kept(p),
                                post_create(pools[p].test_mode,
                                            FreshConn(Len(pools[p].opened))))]
          /\ pools' = [pools EXCEPT ![p].idle = <<>>]
          /\ tasks' = [tasks EXCEPT ![t].held = OwnedHandle(p, id)]
          /\ last' = [said EXCEPT !.conn = <<p, id>>]
    /\ UNCHANGED <<committed, writer, rolledBack>>

\* Pool::get by task t when the engine reports a timeout, a closed pool or a
\* connect failure: the ? returns the PoolError
getFails(t, p) ==
    /\ tasks[t].status = "run"
    /\ tasks[t].held = NoHandle
    /\ pools[p].status = "built"
    /\ last' = [NoLast EXCEPT !.op = "get", !.failure = "engine",
                              !.res = "Err"]
    /\ UNCHANGED <<pools, conns, committed, writer, tasks, rolledBack>>

\* Pool::get by task t when begin_test_transaction fails on the connection
\* the pool just created: the hook's .unwrap() panics
getPanics(t, p) ==
    /\ tasks[t].status = "run"
    /\ tasks[t].held = NoHandle
    /\ pools[p].status = "built"
    /\ Usable(p) = <<>>
    /\ Room(p)
    /\ TestModeOn(pools[p].test_mode)
    /\ conns' = [conns EXCEPT ![p] = Kept(p)]
    /\ pools' = [pools EXCEPT ![p].idle = <<>>]
    /\ tasks' = [tasks EXCEPT ![t].status = "panicked"]
    /\ last' = [NoLast EXCEPT !.op = "get", !.failure = "hook",
                              !.res = "Panic"]
    /\ UNCHANGED <<committed, writer, rolledBack>>

\* a dropped checkout goes back to the idle queue of its pool; reused says
\* of a checked-out connection that it came from the idle queue
Returned(conn) == [conn EXCEPT !.st = "idle", !.reused = FALSE]

\* the owned PooledConnection of task t goes out of scope
Release(t) ==
    LET h == tasks[t].held IN
    /\ tasks[t].status = "run"
    /\ h # NoHandle
    /\ tasks[t].stack = <<>>
    /\ conns' = [conns EXCEPT ![h.pool][h.idx] = Returned(@)]
    /\ pools' = [pools EXCEPT ![h.pool].idle = Append(@, h.idx)]
    /\ tasks' = [tasks EXCEPT ![t].held = NoHandle]
    /\ last' = [NoLast EXCEPT !.op = "release"]
    /\ UNCHANGED <<committed, writer, rolledBack>>

\* the ghost record of rows written by task t on its connection: they count
\* as performed at once outside a callback, and when the outermost callback
\* has returned Ok otherwise
Recorded(t, conn, ids) ==
    IF tasks[t].stack = <<>>
    THEN [conn EXCEPT !.performed = @ \cup ids]
    ELSE conn

Noted(t, ids) ==
    LET s == tasks[t].stack IN
    IF s = <<>> THEN s
    ELSE [s EXCEPT ![Len(s)].writes = @ \cup ids]

\* sql_query("insert ...").execute(&mut conn) on the handle in scope,
\* through deref_mut, as in test_transactions_wo_axum
execute(t) ==
    LET h == tasks[t].held
        id == Len(writer) + 1
    IN
    /\ tasks[t].status = "run"
    /\ h # NoHandle
    /\ id <= MaxRows
    /\ writer' = Append(writer, <<h.pool, h.idx>>)
    /\ committed' = committed \cup execute_rows(Held(t).frames, id)
    /\ conns' = [conns EXCEPT ![h.pool][h.idx] =
                   [Recorded(t, @, {id}) EXCEPT
                      !.frames = execute_frames(@, id)]]
    /\ tasks' = [tasks EXCEPT ![t].stack = Noted(t, {id})]
    /\ last' = [NoLast EXCEPT !.op = "execute", !.conn = <<h.pool, h.idx>>,
                              !.res = "Ok", !.rows = {id}]
    /\ UNCHANGED <<pools, rolledBack>>

\* the rows written through pool p and not rolled back
Performed(p) == UNION {conns[p][i].performed : i \in DOMAIN conns[p]}

\* select(conn: &mut impl ReadableConnection) on the handle in scope
select(t) ==
    LET h == tasks[t].held
        inner == Innermost(t)
    IN
    /\ tasks[t].status = "run"
    /\ h # NoHandle
    /\ ImplsReadable(inner.rw, inner.form)
    /\ last' = [NoLast EXCEPT !.op = "select", !.conn = <<h.pool, h.idx>>,
                              !.res = "Ok",
                              !.rows = VisibleTo(Held(t)),
                              !.missed = Performed(h.pool) \ VisibleTo(Held(t)),
                              !.form = inner.form, !.rw = inner.rw]
    /\ UNCHANGED <<pools, conns, committed, writer, tasks, rolledBack>>

\* insert<T: WriteableConnection>(conn, user_agent) on the handle in scope:
\* conn.transaction resolves through Deref to the driver's transaction, which
\* runs the insert statement and commits
insert(t) ==
    LET h == tasks[t].held
        inner == Innermost(t)
        id == Len(writer) + 1
        written == execute_frames(begin_transaction(Held(t).frames), id)
    IN
    /\ tasks[t].status = "run"
    /\ h # NoHandle
    /\ ImplsWriteable(inner.rw, inner.form)
    /\ id <= MaxRows
    /\ writer' = Append(writer, <<h.pool, h.idx>>)
    /\ committed' = committed \cup commit_rows(written)
    /\ conns' = [conns EXCEPT ![h.pool][h.idx] =
                   [Recorded(t, @, {id}) EXCEPT
                      !.frames = commit_transaction(written)]]
    /\ tasks' = [tasks EXCEPT ![t].stack = Noted(t, {id})]
    /\ last' = [NoLast EXCEPT !.op = "insert", !.conn = <<h.pool, h.idx>>,
                              !.res = "Ok", !.cb = "Ok",
                              !.issued = EndStatement("Ok"), !.rows = {id},
                              !.form = inner.form, !.rw = inner.rw]
    /\ UNCHANGED <<pools, rolledBack>>

\* insert when the statement fails: the driver rolls back and the error is
\* returned
insertFails(t) ==
    LET h == tasks[t].held
        inner == Innermost(t)
    IN
    /\ tasks[t].status = "run"
    /\ h # NoHandle
    /\ ImplsWriteable(inner.rw, inner.form)
    /\ conns' = [conns EXCEPT ![h.pool][h.idx].frames =
                   rollback_transaction(begin_transaction(@))]
    /\ last' = [NoLast EXCEPT !.op = "insert", !.failure = "query",
                              !.res = "Err", !.cb = "Err",
                              !.issued = EndStatement("Err")]
    /\ UNCHANGED <<pools, committed, writer, tasks, rolledBack>>

\* h.transaction(callback) on the handle in scope, up to the point where the
\* callback runs
transaction(t) ==
    LET h == tasks[t].held
        given == CallbackHandle(Innermost(t))
    IN
    /\ tasks[t].status = "run"
    /\ h # NoHandle
    /\ OpenCallbacks < MaxDepth
    /\ conns' = [conns EXCEPT ![h.pool][h.idx].frames = begin_transaction(@)]
    /\ tasks' = [tasks EXCEPT ![t].stack =
                   Append(@, [form |-> given.form, rw |-> given.rw,
                              writes |-> {}, pre |-> Held(t).frames])]
    /\ last' = [NoLast EXCEPT !.op = "begin", !.res = "Ok",
                              !.conn = <<h.pool, h.idx>>,
                              !.form = given.form, !.rw = given.rw]
    /\ UNCHANGED <<pools, committed, writer, rolledBack>>

\* h.transaction(callback) when the driver's BEGIN / SAVEPOINT fails: the
\* callback is not run and the driver's error is returned through From
transactionFails(t) ==
    /\ tasks[t].status = "run"
    /\ tasks[t].held # NoHandle
    /\ OpenCallbacks < MaxDepth
    /\ last' = [NoLast EXCEPT !.op = "transaction", !.failure = "begin",
                              !.res = "Err"]
    /\ UNCHANGED <<pools, conns, committed, writer, tasks, rolledBack>>

\* the rows of a callback that returned Ok count for the enclosing callback,
\* or as performed when there is none
Handed(t, conn, ids) ==
    IF Len(tasks[t].stack) = 1
    THEN [conn EXCEPT !.performed = @ \cup ids]
    ELSE conn

Popped(t, ids) ==
    LET s == tasks[t].stack
        n == Len(s)
    IN
    IF n = 1 THEN <<>>
    ELSE [i \in 1..(n - 1) |->
            IF i = n - 1 THEN [s[i] EXCEPT !.writes = @ \cup ids] ELSE s[i]]

\* what a finished transaction() of task t leaves in last
Finished(t, outcome) ==
    LET h == tasks[t].held
        top == tasks[t].stack[Len(tasks[t].stack)]
    IN
    [NoLast EXCEPT !.op = "transaction", !.conn = <<h.pool, h.idx>>,
                   !.cb = outcome, !.issued = EndStatement(outcome),
                   !.rows = top.writes, !.form = top.form, !.rw = top.rw]

\* the innermost callback of task t returns Ok and the commit succeeds:
\* Ok(value) => { commit_transaction(conn).await?; Ok(value) }
callbackOk(t) ==
    LET h == tasks[t].held
        top == tasks[t].stack[Len(tasks[t].stack)]
    IN
    /\ tasks[t].status = "run"
    /\ tasks[t].stack # <<>>
    /\ committed' = committed \cup commit_rows(Held(t).frames)
    /\ conns' = [conns EXCEPT ![h.pool][h.idx] =
                   [Handed(t, @, top.writes) EXCEPT
                      !.frames = commit_transaction(@)]]
    /\ tasks' = [tasks EXCEPT ![t].stack = Popped(t, top.writes)]
    /\ last' = [Finished(t, "Ok") EXCEPT !.res = "Ok"]
    /\ UNCHANGED <<pools, writer, rolledBack>>

\* the innermost callback of task t returns Ok and the commit fails: the
\* server has aborted the transaction, and the driver's error is returned
\* through From
commitFails(t) ==
    LET h == tasks[t].held IN
    /\ tasks[t].status = "run"
    /\ tasks[t].stack # <<>>
    /\ conns' = [conns EXCEPT ![h.pool][h.idx].frames =
                   rollback_transaction(@)]
    /\ tasks' = [tasks EXCEPT ![t].stack = Popped(t, {})]
    /\ last' = [Finished(t, "Ok") EXCEPT !.res = "Err", !.failure = "commit"]
    /\ UNCHANGED <<pools, committed, writer, rolledBack>>

\* the innermost callback of task t returns an error:
\* Err(user_error) => { rollback_transaction(conn).await; Err(user_error) }
callbackErr(t) ==
    LET h == tasks[t].held
        top == tasks[t].stack[Len(tasks[t].stack)]
    IN
    /\ tasks[t].status = "run"
    /\ tasks[t].stack # <<>>
    /\ conns' = [conns EXCEPT ![h.pool][h.idx].frames =
                   rollback_transaction(@)]
    /\ tasks' = [tasks EXCEPT ![t].stack = Popped(t, {})]
    /\ rolledBack' = rolledBack \cup top.writes
    /\ last' = [Finished(t, "Err") EXCEPT
                  !.res = "Err",
                  !.restored = (rollback_transaction(Held(t).frames) = top.pre)]
    /\ UNCHANGED <<pools, committed, writer>>

\* the innermost callback of task t panics. Nothing catches it: it unwinds
\* through every transaction() of the task, no COMMIT and no ROLLBACK is
\* sent, and the owned connection is dropped with its transactions open
callbackPanics(t) ==
    LET h == tasks[t].held IN
    /\ tasks[t].status = "run"
    /\ tasks[t].stack # <<>>
    /\ conns' = [conns EXCEPT ![h.pool][h.idx] = Returned(@)]
    /\ pools' = [pools EXCEPT ![h.pool].idle = Append(@, h.idx)]
    /\ tasks' = [tasks EXCEPT ![t] =
                   [status |-> "panicked", held |-> NoHandle, stack |-> <<>>]]
    /\ last' = [Finished(t, "Panic") EXCEPT !.res = "Panic"]
    /\ UNCHANGED <<committed, writer, rolledBack>>

\* ---------------------------------------------------------- specifications
TestModes == {NoneBool, SomeBool(TRUE), SomeBool(FALSE)}
MaxSizes == {NoneUsize} \cup {SomeUsize(n) : n \in 1..MaxSizeArg}

\* one caller, and every failure the engine and the driver can report
Solo == {"t1"}

Next ==
    \/ \E tm \in TestModes, ms \in MaxSizes : startup(tm, ms)
    \/ newFails
    \/ DropPool
    \/ \E t \in Solo, p \in PoolNames : get(t, p)
    \/ \E t \in Solo, p \in PoolNames : getFails(t, p)
    \/ \E t \in Solo, p \in PoolNames : getPanics(t, p)
    \/ \E t \in Solo : Release(t)
    \/ \E t \in Solo : execute(t)
    \/ \E t \in Solo : select(t)
    \/ \E t \in Solo : insert(t)
    \/ \E t \in Solo : insertFails(t)
    \/ \E t \in Solo : transaction(t)
    \/ \E t \in Solo : transactionFails(t)
    \/ \E t \in Solo : callbackOk(t)
    \/ \E t \in Solo : commitFails(t)
    \/ \E t \in Solo : callbackErr(t)
    \/ \E t \in Solo : callbackPanics(t)

Spec == Init /\ [][Next]_vars

\* concurrent callers of the read-write pool built with test_mode = true,
\* the engine and the driver's statements succeeding
NextPool ==
    \/ \E ms \in MaxSizes : startup(SomeBool(TRUE), ms)
    \/ DropPool
    \/ \E t \in Tasks : get(t, "rw_pool")
    \/ \E t \in Tasks : Release(t)
    \/ \E t \in Tasks : execute(t)
    \/ \E t \in Tasks : select(t)
    \/ \E t \in Tasks : insert(t)
    \/ \E t \in Tasks : transaction(t)
    \/ \E t \in Tasks : callbackOk(t)
    \/ \E t \in Tasks : callbackErr(t)
    \/ \E t \in Tasks : callbackPanics(t)

SpecPool == Init /\ [][NextPool]_vars

\* one caller after another, each building its pools against the same
\* database_url as the tests do, the engine and the driver's statements
\* succeeding
NextReopen ==
    \/ \E tm \in TestModes, ms \in MaxSizes : new(tm, ms)
    \/ DropPool
    \/ \E t \in Solo, p \in PoolNames : get(t, p)
    \/ \E t \in Solo : Release(t)
    \/ \E t \in Solo : execute(t)
    \/ \E t \in Solo : select(t)
    \/ \E t \in Solo : insert(t)
    \/ \E t \in Solo : transaction(t)
    \/ \E t \in Solo : callbackOk(t)
    \/ \E t \in Solo : callbackErr(t)

SpecReopen == Init /\ [][NextReopen]_vars

\* ------------------------------------------------------------------ claims
\* the pool a physical connection belongs to was built with test_mode = true
InTestPool(c) ==
    pools[c[1]].opened[conns[c[1]][c[2]].inst] = SomeBool(TRUE)

\* C1: the borrowed connection that PooledConnection::transaction hands to
\* the callback carries the marker of the owned connection the transaction
\* was opened on, never another one
C1_TagPreserved ==
    \A t \in Tasks :
        tasks[t].stack # <<>> =>
            /\ tasks[t].stack[1].form = Borrowed
            /\ tasks[t].stack[1].rw = tasks[t].held.rw
            /\ tasks[t].held.rw = PoolMarker(tasks[t].held.pool)

C1_Witness ==
    \E t \in Tasks :
        /\ tasks[t].stack # <<>>
        /\ tasks[t].held.rw = ReadOnly
        /\ tasks[t].stack[1].rw = ReadOnly

\* the PooledConnection handles task t has: its checkout and the borrowed
\* connections of its callbacks
PooledHandles(t) ==
    IF tasks[t].held = NoHandle THEN {}
    ELSE {[form |-> Owned, rw |-> tasks[t].held.rw]}
         \cup {[form |-> tasks[t].stack[i].form, rw |-> tasks[t].stack[i].rw] :
                 i \in {j \in DOMAIN tasks[t].stack :
                          tasks[t].stack[j].form = Borrowed}}

\* C2: a PooledConnection, owned or borrowed, is a WriteableConnection
\* exactly when its marker is ReadWrite and a ReadableConnection with either
\* marker; insert, bounded by WriteableConnection, has only ever accepted
\* a connection of the read-write pool, and select accepts both
C2_CapabilityWiring ==
    /\ \A t \in Tasks : \A h \in PooledHandles(t) :
          /\ ImplsWriteable(h.rw, h.form) <=> h.rw = ReadWrite
          /\ ImplsReadable(h.rw, h.form)
    /\ (last.op = "insert" /\ last.res = "Ok") =>
          /\ last.rw = ReadWrite
          /\ PoolMarker(last.conn[1]) = ReadWrite

C2_Witness ==
    /\ last.op = "insert"
    /\ last.res = "Ok"
    /\ last.form = Borrowed
    /\ \E t \in Tasks : \E h \in PooledHandles(t) :
          h.rw = ReadWrite /\ h.form = Borrowed

\* the transaction() that just finished was committed: COMMIT was issued and
\* succeeded, and the rows of the callback are there
TxCommitted ==
    /\ last.issued = "COMMIT"
    /\ last.failure = "none"
    /\ last.rows \subseteq Visible(last.conn)

\* the transaction() that just finished was rolled back: ROLLBACK was issued
\* and the rows of the callback are gone
TxRolledBack ==
    /\ last.issued = "ROLLBACK"
    /\ last.rows \cap Visible(last.conn) = {}

LeftOpen ==
    LET conn == conns[last.conn[1]][last.conn[2]] IN
    /\ Len(conn.frames) > (IF conn.test_transaction THEN 1 ELSE 0)
    /\ last.rows \subseteq Visible(last.conn)

C4_RollbackDiscards ==
    /\ \A c \in AllConns : rolledBack \cap Visible(c) = {}
    /\ (last.op = "transaction" /\ last.cb = "Err") =>
          last.restored /\ last.rows \subseteq rolledBack

C4_Witness ==
    /\ last.op = "transaction"
    /\ last.cb = "Err"
    /\ Cardinality(last.rows) >= 2

\* C5 as stated: a read through a checkout of a pool built with
\* test_mode = true returns every row written through that pool, whatever
\* its max_size
C5_Original ==
    (last.op = "select" /\ InTestPool(last.conn)) => last.missed = {}

\* C5 amended: a read through a checkout of a pool built with
\* test_mode = true and max_size = 1 returns every row written through that
\* pool and not rolled back
C5_SingleConnection ==
    (/\ last.op = "select"
     /\ InTestPool(last.conn)
     /\ pools[last.conn[1]].max_size = 1) => last.missed = {}

C5_Witness ==
    /\ last.op = "select"
    /\ InTestPool(last.conn)
    /\ pools[last.conn[1]].max_size = 1
    /\ conns[last.conn[1]][last.conn[2]].reused
    /\ Cardinality(Performed(last.conn[1])) >= 2
    /\ Performed(last.conn[1]) \subseteq last.rows

\* the rows written through a pool built with test_mode = true
TestRows == {id \in DOMAIN writer : InTestPool(writer[id])}

\* C6: a row written through a pool built with test_mode = true is never
\* committed and is visible on no physical connection but the one that wrote
\* it; a read through another pool, open at the same time or opened after
\* the first was dropped, with or without test mode, returns none of them
C6_TestWritesIsolated ==
    /\ TestRows \cap committed = {}
    /\ \A c \in AllConns : \A id \in TestRows \cap Visible(c) : writer[id] = c
    /\ last.op = "select" =>
          \A id \in TestRows \cap last.rows : writer[id] = last.conn

C6_Witness ==
    /\ last.op = "select"
    /\ last.conn[1] = "ro_pool"
    /\ ~InTestPool(last.conn)
    /\ last.rows = {}
    /\ \E id \in TestRows :
          /\ writer[id][1] = "rw_pool"
          /\ conns[writer[id][1]][writer[id][2]].st = "closed"

\* C7: on a connection of the read-write pool built with test_mode = true, a
\* read returns the rows written through that connection by plain queries
\* and by transactions whose callback returned Ok, none of which is
\* committed; after one insert on an empty table it returns that one row
C7_OwnWritesVisible ==
    (/\ last.op = "select"
     /\ last.conn[1] = "rw_pool"
     /\ InTestPool(last.conn)) =>
        LET conn == conns[last.conn[1]][last.conn[2]] IN
        /\ conn.performed \subseteq last.rows
        /\ conn.performed \cap committed = {}
        /\ (Len(writer) = 1 /\ conn.performed = {1}) => last.rows = {1}

C7_Witness ==
    /\ last.op = "select"
    /\ last.conn[1] = "rw_pool"
    /\ InTestPool(last.conn)
    /\ Len(writer) = 1
    /\ conns[last.conn[1]][last.conn[2]].performed = {1}
    /\ last.rows = {1}
    /\ committed = {}

\* C8 as stated: at every nesting level the callback holds a borrowed
\* PooledConnection with the marker of the outermost connection
C8_NestedTagged ==
    \A t \in Tasks : \A i \in DOMAIN tasks[t].stack :
        /\ tasks[t].stack[i].form = Borrowed
        /\ tasks[t].stack[i].rw = tasks[t].held.rw

\* C9: in a pool built with test_mode = true every physical connection has
\* had begin_test_transaction called exactly once, before it was handed to
\* anyone and however often it has been checked out since, and that
\* transaction is open as long as the connection is; in a pool built with
\* test_mode false or unset it is never called
C9_TestTransactionOnce ==
    \A c \in AllConns :
        LET conn == conns[c[1]][c[2]] IN
        IF InTestPool(c)
        THEN /\ conn.begun = 1
             /\ conn.test_transaction
             /\ conn.st # "closed" => Len(conn.frames) >= 1
             /\ conn.st # "closed" => conn.frames[1] \cap committed = {}
        ELSE /\ conn.begun = 0
             /\ ~conn.test_transaction

C9_Witness ==
    \E c \in AllConns :
        /\ InTestPool(c)
        /\ conns[c[1]][c[2]].reused
        /\ conns[c[1]][c[2]].st = "out"
        /\ conns[c[1]][c[2]].begun = 1
        /\ conns[c[1]][c[2]].frames[1] # {}

\* C10 as stated: every failure of the engine or the driver during build,
\* the post_create hook, get or transaction is returned to the caller as the
\* error value of the call
C10_FailuresReturned ==
    last.failure # "none" => last.res = "Err"

====
